---- MODULE Spec2Model ----
(***************************************************************************)
(* Model of src/src/index.ts: the instant-tracking example page.           *)
(*                                                                         *)
(* The page is a single-threaded JavaScript program.  Its top-level script *)
(* runs to completion first (the Boot* actions, in source order, tracked   *)
(* by pc); after that the host's event loop delivers events one at a time, *)
(* each handler running to completion: the permission promise's            *)
(* continuation, the GLTF loader's success or error callback, the window's *)
(* resize event, the placement button's click event and the display        *)
(* refresh callback that re-enters render().                               *)
(***************************************************************************)
EXTENDS Integers, Sequences, FiniteSets

\* ------------------------------------------------------------------ bounds

\* render() executions explored (the initial call included).
MaxFrames == 3
\* Invocations of the click handler explored.
MaxClicks == 2
\* Nodes in the loaded model's hierarchy (the root included).
MaxNodes == 3

\* --------------------------------------------------------------- constants

\* Math.PI, in degrees (angles are modelled in whole degrees).
PiDegrees == 180

\* The factor 1.2 of scale.multiplyScalar, as a fraction.  Vector components
\* are fixed-point numbers in tenths: 10 stands for 1.0.
ScaleFactor == [num |-> 12, den |-> 10]

\* setAnchorPoseFromCameraOffset's arguments at its only call site.
AnchorOffset_Flipped == <<0, 0, 2>>
AnchorOffset == <<0, 0, -2>>

\* The window sizes the host may report (portrait, landscape).
WindowSizes == {<<320, 480>>, <<480, 320>>}

\* The scales a parsed model's root may arrive with.
ParsedScales == {[x |-> 10, y |-> 10, z |-> 10], [x |-> 5, y |-> 10, z |-> 20]}

\* The names of the delegated calls of one render() execution.
CallAnchor == "instantTrackerGroup.setAnchorPoseFromCameraOffset"
CallEnvMap == "environmentMap.update"
CallUpdateFrame == "camera.updateFrame"
CallDraw == "renderer.render"
CallSchedule == "requestAnimationFrame"

\* The objects of the scene graph.
Scene == "scene"
AnchorGroup == "instantTrackerGroup"
DirLight == "dirLight"
AmbientLight == "ambientLight"
Plane == "plane"
ModelRoot == "gltf.scene"

\* No model has been delivered yet.
NoGltf == [loaded |-> FALSE]

VARIABLES
    pc,                 \* position of the top-level script
    incompatibleUI,     \* calls of ZapparThree.browserIncompatibleUI()
    uncaught,           \* exceptions that left a script or handler uncaught
    windowSize,         \* <<window.innerWidth, window.innerHeight>>
    rendererSize,       \* the size last given to renderer.setSize
    placeButtonInDom,   \* placeButton is attached to the document
    placeButtonDisplay, \* placeButton.style.display as the program wrote it
    permission,         \* state of the permissionRequestUI() promise
    cameraStarts,       \* calls of camera.start()
    deniedUI,           \* calls of ZapparThree.permissionDeniedUI()
    children,           \* children lists of scene and instantTrackerGroup
    loadState,          \* state of the gltfLoader.load request
    loadCalls,          \* calls of gltfLoader.load
    gltf,               \* the model delivered to the success callback
    errorLogs,          \* console.log calls of the error callback
    hasPlaced,          \* the placement flag
    clicks,             \* invocations of the click handler
    frames,             \* executions of render() started
    rafPending,         \* callbacks registered with requestAnimationFrame
    anchorReqs,         \* arguments of every setAnchorPoseFromCameraOffset call
    lastFrameCalls      \* delegated calls issued by the latest render()

vars ==
    <<pc, incompatibleUI, uncaught, windowSize, rendererSize, placeButtonInDom,
      placeButtonDisplay, permission, cameraStarts, deniedUI, children,
      loadState, loadCalls, gltf, errorLogs, hasPlaced, clicks, frames,
      rafPending, anchorReqs, lastFrameCalls>>

\* ---------------------------------------------------------------- helpers

\* Number of occurrences of x in sequence s.
Count(s, x) == Cardinality({i \in 1..Len(s) : s[i] = x})

\* Object3D.add: the object is appended to the parent's children.
Add(ch, parent, obj) ==
    [ch EXCEPT ![parent] = Append(@, obj)]

\* Vector3.multiplyScalar with the scalar f.num / f.den.
MultiplyScalar(v, f) ==
    [x |-> (v.x * f.num) \div f.den,
     y |-> (v.y * f.num) \div f.den,
     z |-> (v.z * f.num) \div f.den]

\* The hierarchies a parsed model may have: node 1 is the root, every other
\* node's parent is an earlier node, and any node may be a mesh.
Hierarchies ==
    UNION {
        {[parent |-> p, isMesh |-> m] :
            p \in {q \in [1..n -> 0..n] :
                     /\ q[1] = 0
                     /\ \A i \in 2..n : q[i] \in 1..(i - 1)},
            m \in [1..n -> BOOLEAN]}
        : n \in 1..MaxNodes}

\* Object3D.traverse(callback) from node n: the node itself, then each
\* child's subtree.
RECURSIVE Subtree(_, _)
Subtree(h, n) ==
    {n} \cup UNION {Subtree(h, c) : c \in {k \in DOMAIN h.parent : h.parent[k] = n}}

\* The traverse of lines 94-96: every mesh node reached gets castShadow.
CastShadows_RootOnly(h, cast) ==
    [n \in DOMAIN cast |-> IF n = 1 /\ h.isMesh[n] THEN TRUE ELSE cast[n]]
CastShadows(h, cast) ==
    [n \in DOMAIN cast |->
        IF n \in Subtree(h, 1) /\ h.isMesh[n] THEN TRUE ELSE cast[n]]

\* The delegated calls of one render() execution, in source order.
FrameSteps_EnvMapLast(placed) ==
    (IF placed THEN <<>> ELSE <<CallAnchor>>)
        \o <<CallUpdateFrame, CallDraw, CallEnvMap>>
FrameSteps(placed) ==
    (IF placed THEN <<>> ELSE <<CallAnchor>>)
        \o <<CallEnvMap, CallUpdateFrame, CallDraw>>

\* Whether a render() execution whose failAt-th delegated call throws
\* (0: none throws) reaches its requestAnimationFrame call.
Reschedules_Always(steps, failAt) == TRUE
Reschedules(steps, failAt) == failAt \notin 1..Len(steps)

\* ------------------------------------------------------------------- Init

Init ==
    /\ pc = "check"
    /\ incompatibleUI = 0
    /\ uncaught = 0
    /\ windowSize \in WindowSizes
    /\ rendererSize = <<0, 0>>
    /\ placeButtonInDom = FALSE
    /\ placeButtonDisplay = "unset"
    /\ permission = "unrequested"
    /\ cameraStarts = 0
    /\ deniedUI = 0
    /\ children = [o \in {Scene, AnchorGroup} |-> <<>>]
    /\ loadState = "unrequested"
    /\ loadCalls = 0
    /\ gltf = NoGltf
    /\ errorLogs = 0
    /\ hasPlaced = FALSE
    /\ clicks = 0
    /\ frames = 0
    /\ rafPending = 0
    /\ anchorReqs = <<>>
    /\ lastFrameCalls = <<>>

\* ----------------------------------------------------------------- render

\* One execution of render() in which the failAt-th delegated call throws
\* (0: none does); pending is the number of registered callbacks when it
\* starts.  A throwing call has been issued, and nothing after it runs.
render(failAt, pending) ==
    LET steps == FrameSteps(hasPlaced)
        completes == Reschedules(steps, failAt)
        threw == failAt \in 1..Len(steps)
        issued == IF threw THEN SubSeq(steps, 1, failAt) ELSE steps
    IN  /\ frames' = frames + 1
        /\ anchorReqs' =
             IF Count(issued, CallAnchor) > 0
                THEN Append(anchorReqs, AnchorOffset)
                ELSE anchorReqs
        /\ lastFrameCalls' =
             IF completes THEN Append(issued, CallSchedule) ELSE issued
        /\ rafPending' = IF completes THEN pending + 1 ELSE pending
        /\ uncaught' = IF threw THEN uncaught + 1 ELSE uncaught

\* ------------------------------------------------- the top-level script

\* Lines 17-26: an unsupported browser gets the full-page notice and the
\* script throws, so nothing below it runs.
BootCheck ==
    /\ pc = "check"
    /\ \E incompatible \in BOOLEAN :
         IF incompatible
            THEN /\ incompatibleUI' = incompatibleUI + 1
                 /\ uncaught' = uncaught + 1
                 /\ pc' = "aborted"
            ELSE /\ pc' = "renderer"
                 /\ UNCHANGED <<incompatibleUI, uncaught>>
    /\ UNCHANGED <<windowSize, rendererSize, placeButtonInDom,
                   placeButtonDisplay, permission, cameraStarts, deniedUI,
                   children, loadState, loadCalls, gltf, errorLogs, hasPlaced,
                   clicks, frames, rafPending, anchorReqs, lastFrameCalls>>

\* Lines 31-46: the renderer, the placement button (the page's element, or
\* a detached div when the page has none), the canvas size and the resize
\* listener.
BootRenderer ==
    /\ pc = "renderer"
    /\ \E found \in BOOLEAN : placeButtonInDom' = found
    /\ rendererSize' = windowSize
    /\ pc' = "permission"
    /\ UNCHANGED <<incompatibleUI, uncaught, windowSize, placeButtonDisplay,
                   permission, cameraStarts, deniedUI, children, loadState,
                   loadCalls, gltf, errorLogs, hasPlaced, clicks, frames,
                   rafPending, anchorReqs, lastFrameCalls>>

\* Lines 49-65: the camera and the permission request, whose continuation
\* runs once the promise resolves.
BootPermission ==
    /\ pc = "permission"
    /\ permission' = "pending"
    /\ pc' = "anchor"
    /\ UNCHANGED <<incompatibleUI, uncaught, windowSize, rendererSize,
                   placeButtonInDom, placeButtonDisplay, cameraStarts,
                   deniedUI, children, loadState, loadCalls, gltf, errorLogs,
                   hasPlaced, clicks, frames, rafPending, anchorReqs,
                   lastFrameCalls>>

\* Lines 68-80: the anchor group joins the scene.
BootAnchor ==
    /\ pc = "anchor"
    /\ children' = Add(children, Scene, AnchorGroup)
    /\ pc' = "load"
    /\ UNCHANGED <<incompatibleUI, uncaught, windowSize, rendererSize,
                   placeButtonInDom, placeButtonDisplay, permission,
                   cameraStarts, deniedUI, loadState, loadCalls, gltf,
                   errorLogs, hasPlaced, clicks, frames, rafPending,
                   anchorReqs, lastFrameCalls>>

\* Lines 84-102: the load request is issued; its callbacks run later.
BootLoad ==
    /\ pc = "load"
    /\ loadState' = "pending"
    /\ loadCalls' = loadCalls + 1
    /\ pc' = "lights"
    /\ UNCHANGED <<incompatibleUI, uncaught, windowSize, rendererSize,
                   placeButtonInDom, placeButtonDisplay, permission,
                   cameraStarts, deniedUI, children, gltf, errorLogs,
                   hasPlaced, clicks, frames, rafPending, anchorReqs,
                   lastFrameCalls>>

\* Lines 105-127: the directional and the ambient light join the anchor
\* group.
BootLights_DirLightTwice ==
    /\ pc = "lights"
    /\ children' = Add(Add(Add(children, AnchorGroup, DirLight),
                           AnchorGroup, AmbientLight), AnchorGroup, DirLight)
    /\ pc' = "plane"
    /\ UNCHANGED <<incompatibleUI, uncaught, windowSize, rendererSize,
                   placeButtonInDom, placeButtonDisplay, permission,
                   cameraStarts, deniedUI, loadState, loadCalls, gltf,
                   errorLogs, hasPlaced, clicks, frames, rafPending,
                   anchorReqs, lastFrameCalls>>
BootLights ==
    /\ pc = "lights"
    /\ children' = Add(Add(children, AnchorGroup, DirLight),
                       AnchorGroup, AmbientLight)
    /\ pc' = "plane"
    /\ UNCHANGED <<incompatibleUI, uncaught, windowSize, rendererSize,
                   placeButtonInDom, placeButtonDisplay, permission,
                   cameraStarts, deniedUI, loadState, loadCalls, gltf,
                   errorLogs, hasPlaced, clicks, frames, rafPending,
                   anchorReqs, lastFrameCalls>>

\* Lines 130-142: the environment map, and the ground plane joins the
\* anchor group.
BootPlane ==
    /\ pc = "plane"
    /\ children' = Add(children, AnchorGroup, Plane)
    /\ pc' = "placement"
    /\ UNCHANGED <<incompatibleUI, uncaught, windowSize, rendererSize,
                   placeButtonInDom, placeButtonDisplay, permission,
                   cameraStarts, deniedUI, loadState, loadCalls, gltf,
                   errorLogs, hasPlaced, clicks, frames, rafPending,
                   anchorReqs, lastFrameCalls>>

\* Lines 147-151: the flag starts false and the click listener is
\* registered.
BootPlacement ==
    /\ pc = "placement"
    /\ hasPlaced' = FALSE
    /\ pc' = "render"
    /\ UNCHANGED <<incompatibleUI, uncaught, windowSize, rendererSize,
                   placeButtonInDom, placeButtonDisplay, permission,
                   cameraStarts, deniedUI, children, loadState, loadCalls,
                   gltf, errorLogs, clicks, frames, rafPending, anchorReqs,
                   lastFrameCalls>>

\* Line 173: the first, synchronous render(); the script ends with it, also
\* when it throws.
BootRender ==
    /\ pc = "render"
    /\ \E failAt \in 0..Len(FrameSteps(hasPlaced)) : render(failAt, rafPending)
    /\ pc' = "running"
    /\ UNCHANGED <<incompatibleUI, windowSize, rendererSize, placeButtonInDom,
                   placeButtonDisplay, permission, cameraStarts, deniedUI,
                   children, loadState, loadCalls, gltf, errorLogs, hasPlaced,
                   clicks>>

\* ----------------------------------------------------------- the handlers
\* Each runs only once the script has ended (pc = "running"): a handler
\* never interleaves with the script or with another handler.

\* Lines 44-46: the resize listener.
Resize ==
    /\ pc = "running"
    /\ \E size \in WindowSizes :
         /\ windowSize' = size
         /\ rendererSize' = size
    /\ UNCHANGED <<pc, incompatibleUI, uncaught, placeButtonInDom,
                   placeButtonDisplay, permission, cameraStarts, deniedUI,
                   children, loadState, loadCalls, gltf, errorLogs, hasPlaced,
                   clicks, frames, rafPending, anchorReqs, lastFrameCalls>>

\* Lines 60-65: the continuation of the permission promise.
PermissionResult_StartAnyway(granted) ==
    /\ pc = "running"
    /\ permission = "pending"
    /\ permission' = IF granted THEN "granted" ELSE "denied"
    /\ cameraStarts' = cameraStarts + 1
    /\ deniedUI' = IF granted THEN deniedUI ELSE deniedUI + 1
    /\ UNCHANGED <<pc, incompatibleUI, uncaught, windowSize, rendererSize,
                   placeButtonInDom, placeButtonDisplay, children, loadState,
                   loadCalls, gltf, errorLogs, hasPlaced, clicks, frames,
                   rafPending, anchorReqs, lastFrameCalls>>
PermissionResult(granted) ==
    /\ pc = "running"
    /\ permission = "pending"
    /\ permission' = IF granted THEN "granted" ELSE "denied"
    /\ cameraStarts' = IF granted THEN cameraStarts + 1 ELSE cameraStarts
    /\ deniedUI' = IF granted THEN deniedUI ELSE deniedUI + 1
    /\ UNCHANGED <<pc, incompatibleUI, uncaught, windowSize, rendererSize,
                   placeButtonInDom, placeButtonDisplay, children, loadState,
                   loadCalls, gltf, errorLogs, hasPlaced, clicks, frames,
                   rafPending, anchorReqs, lastFrameCalls>>

\* Lines 86-100: the success callback, given the parsed model: its
\* hierarchy h and its root's scale.
LoadSuccess(h, scale) ==
    /\ pc = "running"
    /\ loadState = "pending"
    /\ loadState' = "success"
    /\ placeButtonDisplay' = "block"
    /\ gltf' = [loaded |-> TRUE,
                hierarchy |-> h,
                parsedScale |-> scale,
                rotationY |-> (PiDegrees * 10) \div 25,
                scale |-> MultiplyScalar(scale, ScaleFactor),
                castShadow |-> CastShadows(h, [n \in DOMAIN h.parent |-> FALSE])]
    /\ children' = Add(children, AnchorGroup, ModelRoot)
    /\ UNCHANGED <<pc, incompatibleUI, uncaught, windowSize, rendererSize,
                   placeButtonInDom, permission, cameraStarts, deniedUI,
                   loadCalls, errorLogs, hasPlaced, clicks, frames,
                   rafPending, anchorReqs, lastFrameCalls>>

\* Lines 100-102: the error callback.
LoadError_Retries ==
    /\ pc = "running"
    /\ loadState = "pending"
    /\ loadState' = "pending"
    /\ loadCalls' = loadCalls + 1
    /\ errorLogs' = errorLogs + 1
    /\ UNCHANGED <<pc, incompatibleUI, uncaught, windowSize, rendererSize,
                   placeButtonInDom, placeButtonDisplay, permission,
                   cameraStarts, deniedUI, children, gltf, hasPlaced, clicks,
                   frames, rafPending, anchorReqs, lastFrameCalls>>
LoadError_ShowsButton ==
    /\ pc = "running"
    /\ loadState = "pending"
    /\ loadState' = "failed"
    /\ errorLogs' = errorLogs + 1
    /\ placeButtonDisplay' = "block"
    /\ UNCHANGED <<pc, incompatibleUI, uncaught, windowSize, rendererSize,
                   placeButtonInDom, permission, cameraStarts, deniedUI,
                   children, loadCalls, gltf, hasPlaced, clicks, frames,
                   rafPending, anchorReqs, lastFrameCalls>>
LoadError ==
    /\ pc = "running"
    /\ loadState = "pending"
    /\ loadState' = "failed"
    /\ errorLogs' = errorLogs + 1
    /\ UNCHANGED <<pc, incompatibleUI, uncaught, windowSize, rendererSize,
                   placeButtonInDom, placeButtonDisplay, permission,
                   cameraStarts, deniedUI, children, loadCalls, gltf,
                   hasPlaced, clicks, frames, rafPending, anchorReqs,
                   lastFrameCalls>>

\* Lines 148-151: the click handler.
ClickHandler_Toggles ==
    /\ pc = "running"
    /\ clicks < MaxClicks
    /\ clicks' = clicks + 1
    /\ hasPlaced' = ~hasPlaced
    /\ placeButtonInDom' = FALSE
    /\ UNCHANGED <<pc, incompatibleUI, uncaught, windowSize, rendererSize,
                   placeButtonDisplay, permission, cameraStarts, deniedUI,
                   children, loadState, loadCalls, gltf, errorLogs, frames,
                   rafPending, anchorReqs, lastFrameCalls>>
ClickHandler_KeepsButton ==
    /\ pc = "running"
    /\ clicks < MaxClicks
    /\ clicks' = clicks + 1
    /\ hasPlaced' = TRUE
    /\ UNCHANGED <<pc, incompatibleUI, uncaught, windowSize, rendererSize,
                   placeButtonInDom, placeButtonDisplay, permission,
                   cameraStarts, deniedUI, children, loadState, loadCalls,
                   gltf, errorLogs, frames, rafPending, anchorReqs,
                   lastFrameCalls>>
ClickHandler ==
    /\ pc = "running"
    /\ clicks < MaxClicks
    /\ clicks' = clicks + 1
    /\ hasPlaced' = TRUE
    /\ placeButtonInDom' = FALSE
    /\ UNCHANGED <<pc, incompatibleUI, uncaught, windowSize, rendererSize,
                   placeButtonDisplay, permission, cameraStarts, deniedUI,
                   children, loadState, loadCalls, gltf, errorLogs, frames,
                   rafPending, anchorReqs, lastFrameCalls>>

\* A click a user can make: on a button that is on the page and shown.  The
\* page's stylesheet is taken to hide the button until the program shows it.
UserClick ==
    /\ placeButtonInDom
    /\ placeButtonDisplay = "block"
    /\ ClickHandler

\* Lines 154-170 run as the display-refresh callback registered at line 169.
Tick ==
    /\ pc = "running"
    /\ rafPending > 0
    /\ frames < MaxFrames
    /\ \E failAt \in 0..Len(FrameSteps(hasPlaced)) :
         render(failAt, rafPending - 1)
    /\ UNCHANGED <<pc, incompatibleUI, windowSize, rendererSize,
                   placeButtonInDom, placeButtonDisplay, permission,
                   cameraStarts, deniedUI, children, loadState, loadCalls,
                   gltf, errorLogs, hasPlaced, clicks>>

\* ---------------------------------------------------------- specifications

Boot ==
    \/ BootCheck
    \/ BootRenderer
    \/ BootPermission
    \/ BootAnchor
    \/ BootLoad
    \/ BootLights
    \/ BootPlane
    \/ BootPlacement
    \/ BootRender

Events ==
    \/ Resize
    \/ \E granted \in BOOLEAN : PermissionResult(granted)
    \/ \E h \in Hierarchies, scale \in ParsedScales : LoadSuccess(h, scale)
    \/ LoadError
    \/ Tick

\* The click handler may be invoked whenever it is registered (a click on
\* the button however the page styles it, or a dispatched event).
Next == Boot \/ Events \/ ClickHandler

Spec == Init /\ [][Next]_vars

\* Clicks come only from a user, on a button that starts hidden.
NextUser == Boot \/ Events \/ UserClick

SpecUser == Init /\ [][NextUser]_vars

\* ------------------------------------------------------------------ claims

\* The last element of a non-empty sequence.
Last(s) == s[Len(s)]

\* s is an initial segment of t.
IsPrefix(s, t) == Len(s) <= Len(t) /\ SubSeq(t, 1, Len(s)) = s

\* A step that executes render() once.
RenderStep == frames' = frames + 1

\* C1: as long as the click handler has not run, every execution of
\* render() (the initial call and each tick) issues exactly one
\* setAnchorPoseFromCameraOffset request, with the arguments (0, 0, -2).
C1_UnplacedFrameRequestsOffset ==
    [][(RenderStep /\ clicks = 0) =>
         /\ Count(lastFrameCalls', CallAnchor) = 1
         /\ Len(anchorReqs') = Len(anchorReqs) + 1
         /\ SubSeq(anchorReqs', 1, Len(anchorReqs)) = anchorReqs
         /\ Last(anchorReqs') = <<0, 0, -2>>]_vars

\* C1's case: the initial call and a tick have both run before any click.
C1_Witness ==
    /\ clicks = 0
    /\ frames = 2
    /\ anchorReqs = << <<0, 0, -2>>, <<0, 0, -2>> >>

\* C2: once the click handler has run, hasPlaced is true in every later
\* state whatever event comes next, a further invocation of the handler
\* raises nothing, and no render() execution issues an anchor request.
C2_PlacementTerminal ==
    [][clicks > 0 =>
         /\ hasPlaced /\ hasPlaced'
         /\ anchorReqs' = anchorReqs
         /\ (RenderStep => Count(lastFrameCalls', CallAnchor) = 0)
         /\ (clicks' # clicks => uncaught' = uncaught)]_vars

\* C2's case: the handler has run twice and a frame has run since the first.
C2_Witness ==
    /\ hasPlaced
    /\ clicks = 2
    /\ frames >= 2
    /\ lastFrameCalls = <<CallEnvMap, CallUpdateFrame, CallDraw, CallSchedule>>

\* C3: in every reachable state the program has set the placement
\* control's display to 'block' if and only if the load's success callback
\* has fired; never after a failure, never while the load is pending.
C3_ShownIffLoaded ==
    (placeButtonDisplay = "block") <=> (loadState = "success")

\* C3's case: the success callback has fired and the control is shown.
C3_Witness ==
    /\ loadState = "success"
    /\ placeButtonDisplay = "block"
    /\ gltf.loaded

\* C4: once the load has succeeded the model root is a child of the anchor
\* group exactly once, in every later state, and it carries the rotation
\* pi/2.5 about the vertical axis, 1.2 times its parsed scale on every axis,
\* and castShadow on every mesh node of its hierarchy.
C4_ModelAttachedOnceConfigured ==
    loadState = "success" =>
        /\ Count(children[AnchorGroup], ModelRoot) = 1
        /\ Count(children[Scene], ModelRoot) = 0
        /\ gltf.loaded
        /\ gltf.rotationY * 25 = 180 * 10
        /\ gltf.scale.x * 10 = gltf.parsedScale.x * 12
        /\ gltf.scale.y * 10 = gltf.parsedScale.y * 12
        /\ gltf.scale.z * 10 = gltf.parsedScale.z * 12
        /\ \A n \in DOMAIN gltf.hierarchy.isMesh :
             gltf.hierarchy.isMesh[n] => gltf.castShadow[n]

\* C4's case: a model with a mesh two levels below its root, and a
\* non-uniform parsed scale, has been attached.
C4_Witness ==
    /\ loadState = "success"
    /\ Count(children[AnchorGroup], ModelRoot) = 1
    /\ gltf.loaded
    /\ gltf.hierarchy.parent = <<0, 1, 2>>
    /\ gltf.hierarchy.isMesh = <<FALSE, FALSE, TRUE>>
    /\ gltf.castShadow[3]
    /\ gltf.parsedScale = [x |-> 5, y |-> 10, z |-> 20]
    /\ gltf.scale = [x |-> 6, y |-> 12, z |-> 24]

\* C5: the load's failure handler only reports: it leaves the scene graph,
\* the placement control, hasPlaced and the frame loop as they were, and the
\* load is not requested again.
C5_LoadFailureOnlyReports ==
    /\ [][errorLogs' # errorLogs =>
            /\ loadState = "pending" /\ loadState' = "failed"
            /\ errorLogs' = errorLogs + 1
            /\ UNCHANGED <<pc, children, gltf, placeButtonDisplay,
                           placeButtonInDom, hasPlaced, clicks, loadCalls,
                           frames, rafPending, lastFrameCalls, anchorReqs,
                           uncaught>>]_vars
    /\ [](loadState = "failed" =>
            /\ placeButtonDisplay # "block"
            /\ Count(children[AnchorGroup], ModelRoot) = 0
            /\ loadCalls = 1
            /\ errorLogs = 1)

\* C5's case: the load has failed while the frame loop is alive.
C5_Witness ==
    /\ loadState = "failed"
    /\ errorLogs = 1
    /\ frames >= 2
    /\ rafPending = 1

\* C6 as stated: every execution of render(), also one in which a delegated
\* call fails, leaves a next iteration scheduled.
C6_AlwaysReschedules ==
    [][RenderStep => rafPending' = 1]_vars

\* C6 as amended: an execution of render() in which no delegated call fails
\* schedules exactly one next iteration; one in which a delegated call
\* throws schedules none, issues no call twice, and the loop has stopped:
\* no further execution follows.
C6_ReschedulesUnlessThrown ==
    /\ [][RenderStep =>
            /\ \A c \in {CallAnchor, CallEnvMap, CallUpdateFrame, CallDraw,
                         CallSchedule} : Count(lastFrameCalls', c) <= 1
            /\ IF uncaught' = uncaught
                  THEN /\ rafPending' = 1
                       /\ Last(lastFrameCalls') = CallSchedule
                  ELSE /\ uncaught' = uncaught + 1
                       /\ rafPending' = 0
                       /\ Count(lastFrameCalls', CallSchedule) = 0]_vars
    /\ [][(pc = "running" /\ rafPending = 0) =>
            (frames' = frames /\ rafPending' = 0)]_vars

\* C6's case: a tick's render() threw and nothing is scheduled.
C6_Witness ==
    /\ pc = "running"
    /\ frames = 2
    /\ uncaught = 1
    /\ rafPending = 0
    /\ Last(lastFrameCalls) # CallSchedule

\* C7: the calls of an iteration come in the order anchor request (when
\* issued), environment-map update, camera updateFrame, renderer.render,
\* scheduling; at most one next iteration is pending, it is pending only
\* once the render call has been made, and an iteration starts only after
\* the previous one made its render call and scheduled it.
C7_FrameOrderSequential ==
    /\ [](/\ rafPending \in {0, 1}
          /\ \/ IsPrefix(lastFrameCalls,
                         <<"instantTrackerGroup.setAnchorPoseFromCameraOffset",
                           "environmentMap.update", "camera.updateFrame",
                           "renderer.render", "requestAnimationFrame">>)
             \/ IsPrefix(lastFrameCalls,
                         <<"environmentMap.update", "camera.updateFrame",
                           "renderer.render", "requestAnimationFrame">>)
          /\ rafPending = 1 =>
               /\ Len(lastFrameCalls) >= 2
               /\ SubSeq(lastFrameCalls, Len(lastFrameCalls) - 1,
                         Len(lastFrameCalls))
                    = <<"renderer.render", "requestAnimationFrame">>)
    /\ [][(RenderStep /\ frames > 0) =>
            /\ rafPending = 1
            /\ Count(lastFrameCalls, CallDraw) = 1
            /\ Last(lastFrameCalls) = CallSchedule]_vars

\* C7's case: a tick has run a full iteration before placement.
C7_Witness ==
    /\ frames = 2
    /\ rafPending = 1
    /\ lastFrameCalls =
         <<CallAnchor, CallEnvMap, CallUpdateFrame, CallDraw, CallSchedule>>

\* C8: after a denial camera.start() has not been called and the denial
\* notice has been shown exactly once; after a grant camera.start() has been
\* called exactly once and the notice never shown; the permission result
\* leaves the frame loop and the load as they were, so after a denial a
\* pending load can still complete and a scheduled iteration still runs.
C8_PermissionOutcome ==
    /\ [](/\ permission = "denied" => (cameraStarts = 0 /\ deniedUI = 1)
          /\ permission = "granted" => (cameraStarts = 1 /\ deniedUI = 0)
          /\ permission \in {"unrequested", "pending"} =>
               (cameraStarts = 0 /\ deniedUI = 0))
    /\ [][(permission = "denied" \/ permission = "granted") =>
            (permission' = permission /\ cameraStarts' = cameraStarts
             /\ deniedUI' = deniedUI)]_vars
    /\ [][(permission = "pending" /\ permission' # permission) =>
            UNCHANGED <<pc, uncaught, frames, rafPending, loadState,
                        children, hasPlaced>>]_vars
    /\ [](permission = "denied" =>
            /\ pc = "running"
            /\ loadState = "pending" =>
                 ENABLED (\E h \in Hierarchies, scale \in ParsedScales :
                            LoadSuccess(h, scale))
            /\ (rafPending > 0 /\ frames < MaxFrames) => ENABLED Tick)

\* C8's case: permission was denied, and the load completed and frames ran.
C8_Witness ==
    /\ permission = "denied"
    /\ deniedUI = 1
    /\ cameraStarts = 0
    /\ loadState = "success"
    /\ frames >= 2
    /\ rafPending = 1

\* The objects the top-level script attaches.
StaticObjects == {AnchorGroup, DirLight, AmbientLight, Plane}

\* Occurrences of an object among the children of the scene and the group.
Attached(ch, obj) == Count(ch[Scene], obj) + Count(ch[AnchorGroup], obj)

\* C9 as stated: every object, the model root included, is attached exactly
\* once and before the first iteration: once render() has run the children
\* lists no longer change.
C9_AllAttachedBeforeFirstFrame ==
    [][frames >= 1 => children' = children]_vars

\* C9 as amended: the anchor group, the two lights and the ground plane are
\* attached exactly once each, before the first execution of render(); the
\* model root is attached at most once, exactly when the load has
\* succeeded, and only after the first execution of render().
C9_StaticBeforeFirstFrameModelAfter ==
    /\ [](/\ \A o \in StaticObjects \cup {ModelRoot} :
               Attached(children, o) <= 1
          /\ frames >= 1 =>
               /\ children[Scene] = <<AnchorGroup>>
               /\ \A o \in {DirLight, AmbientLight, Plane} :
                    Count(children[AnchorGroup], o) = 1
          /\ Attached(children, ModelRoot) = 1 <=> loadState = "success"
          /\ Attached(children, ModelRoot) = 1 => frames >= 1
          /\ Count(children[Scene], ModelRoot) = 0)
    /\ [][frames >= 1 =>
            \A o \in StaticObjects :
              Attached(children', o) = Attached(children, o)]_vars

\* C9's case: the model root joined the group after frames had run.
C9_Witness ==
    /\ frames >= 1
    /\ loadState = "success"
    /\ children[Scene] = <<AnchorGroup>>
    /\ children[AnchorGroup] = <<DirLight, AmbientLight, Plane, ModelRoot>>

\* C10: when clicks come only from a user, on a control that starts hidden
\* and is on the page, hasPlaced implies that the model root is a child of
\* the anchor group; while the load has not succeeded hasPlaced is false
\* and every execution of render() has issued its anchor request; and the
\* click handler runs at most once.
C10_PlacedOnlyAfterLoad ==
    /\ hasPlaced => Count(children[AnchorGroup], ModelRoot) = 1
    /\ clicks <= 1
    /\ hasPlaced <=> clicks = 1
    /\ loadState # "success" =>
         /\ ~hasPlaced
         /\ Len(anchorReqs) = frames
         /\ \A i \in 1..Len(anchorReqs) : anchorReqs[i] = <<0, 0, -2>>

\* C10's case: the user has placed the model, the control is gone, and a
\* frame has run since.
C10_Witness ==
    /\ hasPlaced
    /\ clicks = 1
    /\ ~placeButtonInDom
    /\ placeButtonDisplay = "block"
    /\ Count(children[AnchorGroup], ModelRoot) = 1
    /\ Count(lastFrameCalls, CallAnchor) = 0
    /\ frames >= 2

====
